---- MODULE Spec2Model ----
(***************************************************************************)
(* Options-trade ingest: the replay pipeline of databento_replay.py        *)
(* (timestamp normaliser, SymbolResolver, pending buffer, payload builder, *)
(* emitter, the two delivery loops of main) and the live tick handler of   *)
(* ibkr_stream.py.                                                         *)
(*                                                                         *)
(* Python values: an attribute that is absent or None is the empty tuple   *)
(* (getattr(record, name, None) cannot tell the two apart), a present      *)
(* value v is <<v>>.  A str is [s |-> "..."], an int is [i |-> n].         *)
(***************************************************************************)
EXTENDS Integers, Sequences, FiniteSets, TLC

VARIABLES
    mode,          \* "replay" (data has .replay) or "iter" (data is iterable)
    pc,            \* position in main: "stream", "check", "done"
    map,           \* SymbolResolver._map: <<instrument_id, date>> -> symbol
    pending,       \* SymbolResolver._pending
    pending_set,   \* SymbolResolver._pending_set
    buffered,      \* main's buffered list of (record, instrument_id, date)
    out,           \* lines written to standard output, with the record each came from
    requests,      \* history: the symbols= argument of every symbology.resolve call
    stream,        \* history: the records handed to handle_record so far
    placed,        \* history: the records ever appended to buffered
    last,          \* history: what the latest step of main did
    queued,        \* history: the arguments of queue() since the latest resolve_pending()
    last_key,      \* ibkr_stream.main's last_key
    live_out,      \* lines written by on_update
    ticks,         \* history: the ticks delivered to on_update, the clock reading and the outcome of each
    attempt,       \* callback replay: 1 in data.replay(callback=handle_record), 2 in data.replay(handle_record)
    redo,          \* records of the stream the second replay call has still to deliver again
    failure,       \* history: the first exception a lookup call raised, and the output length then
    utcoffset,     \* the local time zone of the process: seconds east of UTC
    ts_arg,        \* the argument of a normalize_ts call made on its own
    ts_result      \* that call's result: None before the call, Some(result) after it

vars == <<mode, pc, map, pending, pending_set, buffered, out, requests, stream,
          placed, last, queued, last_key, live_out, ticks, attempt, redo, failure,
          utcoffset, ts_arg, ts_result>>

replayVars == <<mode, pc, buffered, out, stream, placed, last>>
resolverVars == <<map, pending, pending_set, requests, queued>>
liveVars == <<last_key, live_out, ticks>>
tsVars == <<utcoffset, ts_arg, ts_result>>
faultVars == <<attempt, redo, failure>>

-----------------------------------------------------------------------------
(* Bounds of the exploration.                                              *)

\* Records one run delivers at most.
MaxRecords == 4
\* Pending-identifier count at which handle_record flushes (200 in the source).
PendingFlushAt == 2
\* Buffered-record count at which the iteration loop flushes (2000 in the source).
BufferFlushAt == 3
\* Identifiers per symbology.resolve call (2000 in the source).
ChunkSize == 2
\* Identifiers and calls explored for the resolver alone.
MaxIds == 5
MaxCalls == 6
\* Records one run delivers at most when lookup calls may fail.
MaxFaultyRecords == 3
\* Ticks one live session delivers at most.
MaxTicks == 4
\* Records and ticks delivered at most when both pipelines run side by side.
MaxEvents == 3

-----------------------------------------------------------------------------
(* Python values.                                                          *)

None == <<>>
Some(x) == <<x>>
IsNone(o) == o = <<>>
Get(o) == o[1]

StrV(s) == [s |-> s]
IntV(n) == [i |-> n]
IsStr(v) == DOMAIN v = {"s"}
IsInt(v) == DOMAIN v = {"i"}

\* bool(value) of an optional str or int.
Truthy(o) ==
    /\ ~IsNone(o)
    /\ IF IsStr(Get(o)) THEN Get(o).s # "" ELSE Get(o).i # 0

\* a or b or c
Or3(a, b, c) == IF Truthy(a) THEN a ELSE IF Truthy(b) THEN b ELSE c

\* Decimal strings the model reads back as integers.
Digits == 0 .. 9
StrIsDigit(s) == \E k \in Digits : ToString(k) = s
StrToInt(s) == CHOOSE k \in Digits : ToString(k) = s

stringify(o) ==
    IF IsNone(o) THEN None
    ELSE IF IsStr(Get(o)) THEN Some(Get(o).s)
    ELSE Some(ToString(Get(o).i))

is_numeric_symbol(o) ==
    /\ ~IsNone(o)
    /\ IF IsInt(Get(o)) THEN TRUE ELSE StrIsDigit(Get(o).s)

\* int(symbol), for a symbol is_numeric_symbol accepts.
int_of_symbol(o) == IF IsInt(Get(o)) THEN Get(o).i ELSE StrToInt(Get(o).s)

-----------------------------------------------------------------------------
(* Timestamps.  An epoch integer v is [top |-> t, hi |-> h, lo |-> l] with *)
(* v = t * 10^15 + h * 10^6 + l, 0 <= h < 10^9 and 0 <= l < 10^6, which    *)
(* keeps nanosecond epochs of this century inside TLC's integers.          *)

MILLION == 1000000
\* 1_000_000_000_000_000 = THRESHOLD_HI * MILLION
THRESHOLD_HI == 1000000000
MS_PER_DAY_E5 == 864

Wide(t, h, l) == [top |-> t, hi |-> h, lo |-> l]
\* h * 10^6 + l, for any h >= 0.
Big(h, l) == Wide(h \div THRESHOLD_HI, h % THRESHOLD_HI, l)
\* ts_value > 1_000_000_000_000_000
AboveThreshold(v) == v.top > 1 \/ (v.top = 1 /\ (v.hi > 0 \/ v.lo > 0))

\* 2^k as [top, hi]: top * 10^9 + hi.
RECURSIVE Pow2(_)
Pow2(k) ==
    IF k = 0 THEN [top |-> 0, hi |-> 1]
    ELSE LET p == Pow2(k - 1)
         IN  [top |-> 2 * p.top + (2 * p.hi) \div THRESHOLD_HI,
              hi |-> (2 * p.hi) % THRESHOLD_HI]
AtMost(p, v) == p.top < v.top \/ (p.top = v.top /\ p.hi <= v.hi)
\* The binary exponent of the quotient v div 10^6 = top * 10^9 + hi, for a
\* quotient from 1 to 2^52 - 1: the e with 2^e <= quotient < 2^(e + 1).
Exponent(v) == CHOOSE e \in 0 .. 51 : AtMost(Pow2(e), v) /\ ~AtMost(Pow2(e + 1), v)
\* Half the spacing of the doubles at 2^e, in millionths, rounded down.
HalfUlpMillionths(e) == IF 53 - e >= 20 THEN 0 ELSE MILLION \div (2 ^ (53 - e))
\* ts_value / 1_000_000 is the double nearest to the exact quotient (ties to
\* even); it is the next integer when the fraction lo / 10^6 is within half
\* a spacing of 1.
RoundsUp(v) == v.lo # 0 /\ MILLION - v.lo <= HalfUlpMillionths(Exponent(v))
\* int(ts_value / 1_000_000), for ts_value above the threshold and a quotient
\* below 2^52: the quotient, or the quotient plus 1 where the double rounds up.
DivMillion(v) ==
    LET h == (v.top * 1000) + (v.hi \div MILLION)
        l == (v.hi % MILLION) + (IF RoundsUp(v) THEN 1 ELSE 0)
    IN  IF l = MILLION THEN Big(h + 1, 0) ELSE Big(h, l)

\* An int n >= 0 as an epoch integer.
IntToBig(n) == Big(n \div MILLION, n % MILLION)

\* datetime.timestamp() in whole seconds.  A date-time is [wall |-> w,
\* tzinfo |-> o]: w is its calendar reading in seconds since 1970-01-01T00:00
\* and o is None (naive) or Some(seconds east of UTC).  A naive date-time is
\* read in the local time zone of the process.
timestamp(d) == IF IsNone(d.tzinfo) THEN d.wall - utcoffset ELSE d.wall - Get(d.tzinfo)
\* dt.datetime.combine(date, dt.time()): the naive midnight of the day.
combine(days) == [wall |-> days * 86400, tzinfo |-> None]

\* A ts_event is None, [datetime |-> d], [date |-> days since 1970-01-01],
\* [num |-> v] (an int) or [other |-> tag] (a str, ...).
normalize_ts(ts_value) ==
    IF IsNone(ts_value) THEN None
    ELSE IF DOMAIN Get(ts_value) = {"datetime"} THEN
        Some(IntToBig(timestamp(Get(ts_value).datetime) * 1000))
    ELSE IF DOMAIN Get(ts_value) = {"date"} THEN
        Some(IntToBig(timestamp(combine(Get(ts_value).date)) * 1000))
    ELSE IF DOMAIN Get(ts_value) = {"num"} THEN
        IF AboveThreshold(Get(ts_value).num)
        THEN Some(DivMillion(Get(ts_value).num))
        ELSE Some(Get(ts_value).num)
    ELSE None

\* dt.datetime.utcfromtimestamp(ts_ms / 1000).date(), as days since the epoch,
\* for ts_ms below 10^15: ts_ms div 86_400_000, computed limb by limb.
DateOf(ms) ==
    10 * (ms.hi \div MS_PER_DAY_E5)
    + (10 * (ms.hi % MS_PER_DAY_E5) + ms.lo \div 100000) \div MS_PER_DAY_E5

-----------------------------------------------------------------------------
(* Records of the historical source, read by attribute name.               *)

NumTs(h, l) == Some([num |-> Big(h, l)])
OtherTs == Some([other |-> "str"])

BlankRecord ==
    [seq |-> 0, symbol |-> None, raw_symbol |-> None, instrument_id |-> None,
     ts_event |-> None, price |-> None, size |-> None,
     exchange |-> None, publisher_id |-> None, exchange_id |-> None,
     conditions |-> None, condition |-> None]

\* 1970-01-12T00:00:00.001Z in milliseconds; 1970-01-13T00:00:00Z in nanoseconds.
TsDayA == NumTs(950, 400001)
TsDayBns == NumTs(1036800000, 0)

Trade(ts) == [BlankRecord EXCEPT !.ts_event = ts, !.price = Some(105), !.size = Some(5)]

\* The records a source may deliver (seq is set on delivery).
Records ==
    { [Trade(TsDayA) EXCEPT !.instrument_id = Some(IntV(1)), !.publisher_id = Some(IntV(7))],
      [Trade(TsDayBns) EXCEPT !.instrument_id = Some(IntV(1))],
      [Trade(TsDayA) EXCEPT !.symbol = Some(StrV("2")), !.instrument_id = Some(IntV(9))],
      [Trade(TsDayA) EXCEPT !.symbol = Some(StrV("")), !.raw_symbol = Some(StrV("3")),
                            !.price = None],
      [Trade(TsDayA) EXCEPT !.symbol = Some(StrV("SPY")), !.exchange = Some(StrV("XNAS")),
                            !.condition = Some(StrV("T"))],
      [Trade(TsDayA) EXCEPT !.raw_symbol = Some(StrV("QQQ")), !.size = None],
      Trade(TsDayA),
      [Trade(OtherTs) EXCEPT !.instrument_id = Some(IntV(1))] }
\* A record that carries no ts_event.
Unstamped == [Trade(None) EXCEPT !.instrument_id = Some(IntV(1))]

\* symbol or raw_symbol or instrument_id
SymbolOf(record) == Or3(record.symbol, record.raw_symbol, record.instrument_id)

TsOk(record) == ~IsNone(normalize_ts(record.ts_event))
DateOfRecord(record) == DateOf(Get(normalize_ts(record.ts_event)))

\* The <<instrument_id, date>> pairs handle_record can look up.
Keys ==
    { <<int_of_symbol(SymbolOf(r)), DateOfRecord(r)>> :
        r \in { x \in Records : TsOk(x) /\ is_numeric_symbol(SymbolOf(x)) } }
\* The symbols the lookup service may map an identifier to.
SymbolsFor(instrument_id) ==
    IF instrument_id = 1 THEN {"AAA", "BBB"}
    ELSE IF instrument_id = 2 THEN {"CCC"}
    ELSE {"DDD"}
\* An answer for one <<instrument_id, date>>: no mapping, or a symbol.
Answers(k) == {None} \cup { Some(StrV(s)) : s \in SymbolsFor(k[1]) }

-----------------------------------------------------------------------------
(* Payload builder and emitter.                                            *)

\* conditions: a str is wrapped in a list; a list is [l |-> <<...>>].
ConditionsOf(record) ==
    LET c == IF ~IsNone(record.conditions)
                  /\ (IF IsStr(Get(record.conditions)) THEN Get(record.conditions).s # ""
                      ELSE Get(record.conditions).l # <<>>)
             THEN record.conditions ELSE record.condition
    IN  IF IsNone(c) THEN None
        ELSE IF IsStr(Get(c)) THEN Some(<<Get(c).s>>)
        ELSE Some(Get(c).l)

\* build_payload with a missing price read as 0 (price or 0).
build_payload_default_price(record, symbol_override) ==
    LET symbol == IF Truthy(symbol_override) THEN symbol_override ELSE SymbolOf(record)
        ts_ms == normalize_ts(record.ts_event)
    IN  IF IsNone(record.ts_event) \/ IsNone(record.size) \/ IsNone(symbol)
        THEN None
        ELSE IF IsNone(ts_ms) THEN None
        ELSE Some([ts |-> Get(ts_ms),
                   price |-> IF IsNone(record.price) THEN 0 ELSE Get(record.price),
                   size |-> Get(record.size),
                   symbol |-> Get(stringify(symbol)),
                   exchange |-> stringify(Or3(record.exchange, record.publisher_id,
                                              record.exchange_id)),
                   conditions |-> None])

build_payload(record, symbol_override) ==
    LET symbol == IF Truthy(symbol_override) THEN symbol_override ELSE SymbolOf(record)
        ts_ms == normalize_ts(record.ts_event)
        exchange == Or3(record.exchange, record.publisher_id, record.exchange_id)
        conditions == ConditionsOf(record)
    IN  IF IsNone(record.ts_event) \/ IsNone(record.price) \/ IsNone(record.size)
           \/ IsNone(symbol)
        THEN None
        ELSE IF IsNone(ts_ms) THEN None
        ELSE Some([ts |-> Get(ts_ms),
                   price |-> Get(record.price),
                   size |-> Get(record.size),
                   symbol |-> Get(stringify(symbol)),
                   exchange |-> stringify(exchange),
                   conditions |-> IF ~IsNone(conditions) /\ Get(conditions) # <<>>
                                  THEN conditions ELSE None])

\* print(json.dumps(payload)): one more line, tagged with the record it was built from.
emit_payload(lines, payload, record) ==
    IF IsNone(payload) THEN lines
    ELSE Append(lines, [line |-> Get(payload), rec |-> record.seq])

-----------------------------------------------------------------------------
(* SymbolResolver.  S is the state the replay program holds: the fields of *)
(* the resolver, main's buffered list, the output, and the histories.      *)

Range(seq) == { seq[k] : k \in 1 .. Len(seq) }
Min(a, b) == IF a <= b THEN a ELSE b

\* queue without the membership test.
queue_unchecked(S, instrument_id) ==
    [S EXCEPT !.pending_set = @ \cup {instrument_id},
              !.pending = Append(@, instrument_id),
              !.queued = Append(@, instrument_id)]

queue(S, instrument_id) ==
    IF instrument_id \in S.pending_set
    THEN [S EXCEPT !.queued = Append(@, instrument_id)]
    ELSE [S EXCEPT !.pending_set = @ \cup {instrument_id},
                   !.pending = Append(@, instrument_id),
                   !.queued = Append(@, instrument_id)]

\* InstrumentMap.insert_json: the mappings of the response join the map.
insert_json(m, response) ==
    [k \in DOMAIN m \cup { x \in DOMAIN response : ~IsNone(response[x]) } |->
        IF k \in DOMAIN response /\ ~IsNone(response[k]) THEN response[k] ELSE m[k]]

\* What the lookup service may answer for a set of identifiers: for each
\* identifier and date a symbol or nothing; a key the map resolves already
\* is still resolved afterwards.
Responses(m, ids, keys) ==
    { f \in [{ k \in keys : k[1] \in ids } -> UNION { Answers(k) : k \in keys }] :
        \A k \in DOMAIN f : f[k] \in Answers(k) /\ (k \in DOMAIN m => ~IsNone(f[k])) }

\* The answers of a lookup service that is a function of the identifier and
\* the date for the length of a run: a key the map resolves is answered with
\* the same symbol again.
StableResponses(m, ids, keys) ==
    { f \in Responses(m, ids, keys) : \A k \in DOMAIN f : k \in DOMAIN m => f[k] = m[k] }

\* The chunk loop slicing pending[i : i + 2000 + 1].
RECURSIVE ResolveChunksOverlap(_, _, _, _)
ResolveChunksOverlap(S, pend, i, resp) ==
    IF i >= Len(pend) THEN S
    ELSE LET chunk == SubSeq(pend, i + 1, Min(i + ChunkSize + 1, Len(pend)))
             response == [k \in { x \in DOMAIN resp : x[1] \in Range(chunk) } |-> resp[k]]
         IN  ResolveChunksOverlap([S EXCEPT !.requests = Append(@, chunk),
                                            !.map = insert_json(@, response)],
                                  pend, i + ChunkSize, resp)

\* for i in range(0, len(pending), 2000), from offset i on
RECURSIVE ResolveChunks(_, _, _, _)
ResolveChunks(S, pend, i, resp) ==
    IF i >= Len(pend) THEN S
    ELSE LET chunk == SubSeq(pend, i + 1, Min(i + ChunkSize, Len(pend)))
             response == [k \in { x \in DOMAIN resp : x[1] \in Range(chunk) } |-> resp[k]]
         IN  ResolveChunks([S EXCEPT !.requests = Append(@, chunk),
                                     !.map = insert_json(@, response)],
                           pend, i + ChunkSize, resp)

\* resolve_pending starting from a fresh InstrumentMap.
resolve_pending_fresh_map(S, resp) ==
    IF S.pending = <<>> THEN S
    ELSE ResolveChunks([S EXCEPT !.pending = <<>>, !.pending_set = {}, !.queued = <<>>,
                                 !.map = [k \in {} |-> None]],
                       S.pending, 0, resp)

\* resolve_pending clearing the membership set but not the list.
resolve_pending_keeps_queue(S, resp) ==
    IF S.pending = <<>> THEN S
    ELSE ResolveChunks([S EXCEPT !.pending_set = {}, !.queued = <<>>], S.pending, 0, resp)

resolve_pending(S, resp) ==
    IF S.pending = <<>> THEN S
    ELSE ResolveChunks([S EXCEPT !.pending = <<>>, !.pending_set = {}, !.queued = <<>>],
                       S.pending, 0, resp)

lookup(m, instrument_id, date) ==
    IF <<instrument_id, date>> \in DOMAIN m THEN m[<<instrument_id, date>>] ELSE None

pending_count(S) == Len(S.pending)

-----------------------------------------------------------------------------
(* main: flush_buffer and handle_record.                                   *)

\* The flush loop putting an entry it keeps in front of the kept ones.
RECURSIVE FlushLoopPrepend(_, _, _, _, _)
FlushLoopPrepend(acc, entries, i, m, force) ==
    IF i > Len(entries) THEN acc
    ELSE LET e == entries[i]
             mapped == lookup(m, e.instrument_id, e.date)
             next ==
                 IF Truthy(mapped)
                 THEN [acc EXCEPT !.out = emit_payload(@, build_payload(e.record, mapped), e.record)]
                 ELSE IF force
                 THEN [acc EXCEPT !.out = emit_payload(@,
                           build_payload(e.record, Some(StrV(ToString(e.instrument_id)))), e.record)]
                 ELSE [acc EXCEPT !.remaining = <<e>> \o @]
         IN  FlushLoopPrepend(next, entries, i + 1, m, force)

\* The flush loop leaving at the first entry it keeps (break), the entries
\* after it kept unseen.
RECURSIVE FlushLoopBreak(_, _, _, _, _)
FlushLoopBreak(acc, entries, i, m, force) ==
    IF i > Len(entries) THEN acc
    ELSE LET e == entries[i]
             mapped == lookup(m, e.instrument_id, e.date)
         IN  IF Truthy(mapped)
             THEN FlushLoopBreak([acc EXCEPT !.out = emit_payload(@, build_payload(e.record, mapped),
                                                                  e.record)],
                                 entries, i + 1, m, force)
             ELSE IF force
             THEN FlushLoopBreak([acc EXCEPT !.out = emit_payload(@,
                                      build_payload(e.record, Some(StrV(ToString(e.instrument_id)))),
                                      e.record)],
                                 entries, i + 1, m, force)
             ELSE [acc EXCEPT !.remaining = @ \o SubSeq(entries, i, Len(entries))]

\* The loop of flush_buffer over buffered, from entry i on: acc.out are the
\* lines, acc.remaining the entries kept.
RECURSIVE FlushLoop(_, _, _, _, _)
FlushLoop(acc, entries, i, m, force) ==
    IF i > Len(entries) THEN acc
    ELSE LET e == entries[i]
             mapped == lookup(m, e.instrument_id, e.date)
             next ==
                 IF Truthy(mapped)
                 THEN [acc EXCEPT !.out = emit_payload(@, build_payload(e.record, mapped), e.record)]
                 ELSE IF force
                 THEN [acc EXCEPT !.out = emit_payload(@,
                           build_payload(e.record, Some(StrV(ToString(e.instrument_id)))), e.record)]
                 ELSE [acc EXCEPT !.remaining = Append(@, e)]
         IN  FlushLoop(next, entries, i + 1, m, force)

\* flush_buffer that never falls back to the raw identifier.
flush_buffer_unforced(S, force, resp) ==
    IF S.buffered = <<>> THEN S
    ELSE LET R == resolve_pending(S, resp)
             done == FlushLoop([out |-> R.out, remaining |-> <<>>], R.buffered, 1, R.map, FALSE)
         IN  [R EXCEPT !.out = done.out,
                       !.buffered = done.remaining,
                       !.flush = Some([force |-> force, before |-> S.buffered,
                                       nout |-> Len(S.out)])]

flush_buffer(S, force, resp) ==
    IF S.buffered = <<>> THEN S
    ELSE LET R == resolve_pending(S, resp)
             done == FlushLoop([out |-> R.out, remaining |-> <<>>], R.buffered, 1, R.map, force)
         IN  [R EXCEPT !.out = done.out,
                       !.buffered = done.remaining,
                       !.flush = Some([force |-> force, before |-> S.buffered,
                                       nout |-> Len(S.out)])]

\* handle_record queueing a numeric identifier before it checks the timestamp.
handle_record_eager_queue(S, record, resp) ==
    LET symbol == SymbolOf(record)
        ts_ms == normalize_ts(record.ts_event)
        E == IF is_numeric_symbol(symbol) THEN queue(S, int_of_symbol(symbol)) ELSE S
    IN  IF IsNone(ts_ms) THEN E
        ELSE IF is_numeric_symbol(symbol) THEN
            LET date == DateOf(Get(ts_ms))
                instrument_id == int_of_symbol(symbol)
                mapped == lookup(S.map, instrument_id, date)
            IN  IF Truthy(mapped)
                THEN [S EXCEPT !.out = emit_payload(@, build_payload(record, mapped), record)]
                ELSE LET B == [E EXCEPT !.buffered = Append(@, [record |-> record,
                                                               instrument_id |-> instrument_id,
                                                               date |-> date]),
                                        !.placed = @ \cup {record.seq}]
                     IN  IF pending_count(B) >= PendingFlushAt
                         THEN flush_buffer(B, FALSE, resp)
                         ELSE B
        ELSE [S EXCEPT !.out = emit_payload(@, build_payload(record, None), record)]

\* handle_record flushing only above the threshold (> 200).
handle_record_late(S, record, resp) ==
    LET symbol == SymbolOf(record)
        ts_ms == normalize_ts(record.ts_event)
    IN  IF IsNone(ts_ms) THEN S
        ELSE IF is_numeric_symbol(symbol) THEN
            LET date == DateOf(Get(ts_ms))
                instrument_id == int_of_symbol(symbol)
                mapped == lookup(S.map, instrument_id, date)
            IN  IF Truthy(mapped)
                THEN [S EXCEPT !.out = emit_payload(@, build_payload(record, mapped), record)]
                ELSE LET Q == queue(S, instrument_id)
                         B == [Q EXCEPT !.buffered = Append(@, [record |-> record,
                                                               instrument_id |-> instrument_id,
                                                               date |-> date]),
                                        !.placed = @ \cup {record.seq}]
                     IN  IF pending_count(B) > PendingFlushAt
                         THEN flush_buffer(B, FALSE, resp)
                         ELSE B
        ELSE [S EXCEPT !.out = emit_payload(@, build_payload(record, None), record)]

\* handle_record queueing the identifier before it consults the cache.
handle_record_queue_first(S, record, resp) ==
    LET symbol == SymbolOf(record)
        ts_ms == normalize_ts(record.ts_event)
    IN  IF IsNone(ts_ms) THEN S
        ELSE IF is_numeric_symbol(symbol) THEN
            LET date == DateOf(Get(ts_ms))
                instrument_id == int_of_symbol(symbol)
                mapped == lookup(S.map, instrument_id, date)
                Q == queue(S, instrument_id)
            IN  IF Truthy(mapped)
                THEN [Q EXCEPT !.out = emit_payload(@, build_payload(record, mapped), record)]
                ELSE LET B == [Q EXCEPT !.buffered = Append(@, [record |-> record,
                                                               instrument_id |-> instrument_id,
                                                               date |-> date]),
                                        !.placed = @ \cup {record.seq}]
                     IN  IF pending_count(B) >= PendingFlushAt
                         THEN flush_buffer(B, FALSE, resp)
                         ELSE B
        ELSE [S EXCEPT !.out = emit_payload(@, build_payload(record, None), record)]

handle_record(S, record, resp) ==
    LET symbol == SymbolOf(record)
        ts_ms == normalize_ts(record.ts_event)
    IN  IF IsNone(ts_ms) THEN S
        ELSE IF is_numeric_symbol(symbol) THEN
            LET date == DateOf(Get(ts_ms))
                instrument_id == int_of_symbol(symbol)
                mapped == lookup(S.map, instrument_id, date)
            IN  IF Truthy(mapped)
                THEN [S EXCEPT !.out = emit_payload(@, build_payload(record, mapped), record)]
                ELSE LET Q == queue(S, instrument_id)
                         B == [Q EXCEPT !.buffered = Append(@, [record |-> record,
                                                               instrument_id |-> instrument_id,
                                                               date |-> date]),
                                        !.placed = @ \cup {record.seq}]
                     IN  IF pending_count(B) >= PendingFlushAt
                         THEN flush_buffer(B, FALSE, resp)
                         ELSE B
        ELSE [S EXCEPT !.out = emit_payload(@, build_payload(record, None), record)]

-----------------------------------------------------------------------------
(* The replay program as a state machine.                                  *)

\* The program state before a step; flush records the flush_buffer call of the step.
Now ==
    [map |-> map, pending |-> pending, pending_set |-> pending_set,
     requests |-> requests, queued |-> queued, buffered |-> buffered,
     out |-> out, placed |-> placed, flush |-> None]

\* The identifiers a step submits, whatever the answers are.
Asked(S) == UNION { Range(S.requests[k]) : k \in Len(requests) + 1 .. Len(S.requests) }

Becomes(S) ==
    /\ map' = S.map
    /\ pending' = S.pending
    /\ pending_set' = S.pending_set
    /\ requests' = S.requests
    /\ queued' = S.queued
    /\ buffered' = S.buffered
    /\ out' = S.out
    /\ placed' = S.placed

NoResponse == [k \in {} |-> None]

InitReplay ==
    /\ mode \in {"replay", "iter"}
    /\ pc = "stream"
    /\ map = [k \in {} |-> None]
    /\ pending = <<>>
    /\ pending_set = {}
    /\ buffered = <<>>
    /\ out = <<>>
    /\ requests = <<>>
    /\ stream = <<>>
    /\ placed = {}
    /\ queued = <<>>
    /\ last = [op |-> "init", len |-> 0, flush |-> None]
    /\ attempt = 1
    /\ redo = 0
    /\ failure = None

InitLive ==
    /\ last_key = None
    /\ live_out = <<>>
    /\ ticks = <<>>

\* No normalize_ts call on its own is under way.  The records and ticks of
\* the pipelines carry integer timestamps, which do not read the time zone.
InitTs ==
    /\ utcoffset = 0
    /\ ts_arg = None
    /\ ts_result = None

Init == InitReplay /\ InitLive /\ InitTs

\* The source delivers one more record: handle_record(record).  On the
\* iteration path the loop goes on to its capacity check.
HandleRecord ==
    /\ pc = "stream"
    /\ Len(stream) < MaxRecords
    /\ \E r \in Records :
         LET record == [r EXCEPT !.seq = Len(stream) + 1]
             ids == Asked(handle_record(Now, record, NoResponse))
         IN  \E resp \in Responses(map, ids, Keys) :
               LET S == handle_record(Now, record, resp)
               IN  /\ Becomes(S)
                   /\ stream' = Append(stream, record)
                   /\ last' = [op |-> "handle", len |-> Len(S.buffered), flush |-> S.flush]
    /\ pc' = IF mode = "iter" THEN "check" ELSE "stream"
    /\ UNCHANGED <<mode, liveVars, tsVars, faultVars>>

\* Iteration path: if len(buffered) >= 2000: flush_buffer()
CapacityCheck ==
    /\ pc = "check"
    /\ LET due == Len(buffered) >= BufferFlushAt
           ids == IF due THEN Asked(flush_buffer(Now, FALSE, NoResponse)) ELSE {}
       IN  \E resp \in Responses(map, ids, Keys) :
             LET S == IF due THEN flush_buffer(Now, FALSE, resp) ELSE Now
             IN  /\ Becomes(S)
                 /\ last' = [op |-> "check", len |-> last.len, flush |-> S.flush]
    /\ pc' = "stream"
    /\ UNCHANGED <<mode, stream, liveVars, tsVars, faultVars>>

\* The source is exhausted (replay returns, the for loop ends): flush_buffer(force=True)
EndOfStream ==
    /\ pc = "stream"
    /\ LET ids == Asked(flush_buffer(Now, TRUE, NoResponse))
       IN  \E resp \in Responses(map, ids, Keys) :
             LET S == flush_buffer(Now, TRUE, resp)
             IN  /\ Becomes(S)
                 /\ last' = [op |-> "end", len |-> last.len, flush |-> S.flush]
    /\ pc' = "done"
    /\ UNCHANGED <<mode, stream, liveVars, tsVars, faultVars>>

Next == HandleRecord \/ CapacityCheck \/ EndOfStream

Spec == Init /\ [][Next]_vars

-----------------------------------------------------------------------------
(* The replay program against a lookup service whose answers do not change *)
(* during a run.                                                           *)

\* handle_record(record), the service answering as a function.
HandleRecordStable ==
    /\ pc = "stream"
    /\ Len(stream) < MaxRecords
    /\ \E r \in Records :
         LET record == [r EXCEPT !.seq = Len(stream) + 1]
             ids == Asked(handle_record(Now, record, NoResponse))
         IN  \E resp \in StableResponses(map, ids, Keys) :
               LET S == handle_record(Now, record, resp)
               IN  /\ Becomes(S)
                   /\ stream' = Append(stream, record)
                   /\ last' = [op |-> "handle", len |-> Len(S.buffered), flush |-> S.flush]
    /\ pc' = IF mode = "iter" THEN "check" ELSE "stream"
    /\ UNCHANGED <<mode, liveVars, tsVars, faultVars>>

\* The capacity flush of the iteration path, the service answering as a function.
CapacityCheckStable ==
    /\ pc = "check"
    /\ LET due == Len(buffered) >= BufferFlushAt
           ids == IF due THEN Asked(flush_buffer(Now, FALSE, NoResponse)) ELSE {}
       IN  \E resp \in StableResponses(map, ids, Keys) :
             LET S == IF due THEN flush_buffer(Now, FALSE, resp) ELSE Now
             IN  /\ Becomes(S)
                 /\ last' = [op |-> "check", len |-> last.len, flush |-> S.flush]
    /\ pc' = "stream"
    /\ UNCHANGED <<mode, stream, liveVars, tsVars, faultVars>>

\* flush_buffer(force=True) after the stream, the service answering as a function.
EndOfStreamStable ==
    /\ pc = "stream"
    /\ LET ids == Asked(flush_buffer(Now, TRUE, NoResponse))
       IN  \E resp \in StableResponses(map, ids, Keys) :
             LET S == flush_buffer(Now, TRUE, resp)
             IN  /\ Becomes(S)
                 /\ last' = [op |-> "end", len |-> last.len, flush |-> S.flush]
    /\ pc' = "done"
    /\ UNCHANGED <<mode, stream, liveVars, tsVars, faultVars>>

NextStable == HandleRecordStable \/ CapacityCheckStable \/ EndOfStreamStable

SpecStable == Init /\ [][NextStable]_vars

-----------------------------------------------------------------------------
(* The replay program when a symbology.resolve call may raise.  The        *)
(* exception leaves resolve_pending, flush_buffer and handle_record at     *)
(* once.  Inside data.replay(callback=handle_record) the except clause of  *)
(* main catches a TypeError and calls data.replay(handle_record), which    *)
(* delivers the stream again from its first record; anywhere else, and for *)
(* any other exception, main ends with the exception.                      *)

FailureKinds == {"TypeError", "Exception"}

\* resolve_pending when its call number n + 1 raises: the queue is cleared,
\* the first n chunks are answered and inserted, the next one is asked.
resolve_pending_raises(S, resp, n) ==
    LET done == ResolveChunks([S EXCEPT !.pending = <<>>, !.pending_set = {}, !.queued = <<>>],
                              SubSeq(S.pending, 1, n * ChunkSize), 0, resp)
        chunk == SubSeq(S.pending, n * ChunkSize + 1, Min((n + 1) * ChunkSize, Len(S.pending)))
    IN  [done EXCEPT !.requests = Append(@, chunk)]

\* flush_buffer on a buffer that is not empty, the exception passing through.
flush_buffer_raises(S, resp, n) == resolve_pending_raises(S, resp, n)

\* handle_record of a record it buffers, the exception passing through.
handle_record_raises(S, record, resp, n) ==
    LET instrument_id == int_of_symbol(SymbolOf(record))
        Q == queue(S, instrument_id)
        B == [Q EXCEPT !.buffered = Append(@, [record |-> record,
                                              instrument_id |-> instrument_id,
                                              date |-> DateOfRecord(record)]),
                       !.placed = @ \cup {record.seq}]
    IN  flush_buffer_raises(B, resp, n)

\* The lookup calls a step makes when none raises, and the identifiers of the first n.
Calls(S) == Len(S.requests) - Len(requests)
AskedFirst(S, n) == UNION { Range(S.requests[k]) : k \in Len(requests) + 1 .. Len(requests) + n }

\* An exception of a lookup call leaves the step.
Raise(S, kind) ==
    /\ Becomes(S)
    /\ failure' = IF IsNone(failure) THEN Some([kind |-> kind, nout |-> Len(out)]) ELSE failure
    /\ last' = [op |-> "raise", len |-> Len(S.buffered), flush |-> None]

\* The record the source delivers next: one more of the stream, or, in the
\* second replay call, the stream again.
Upcoming ==
    IF redo > 0 THEN {stream[Len(stream) - redo + 1]}
    ELSE IF Len(stream) < MaxFaultyRecords
    THEN { [r EXCEPT !.seq = Len(stream) + 1] : r \in Records }
    ELSE {}

\* data.replay(handle_record) delivers a record of the stream again.
ReplayAgain ==
    /\ pc = "stream"
    /\ redo > 0
    /\ LET record == stream[Len(stream) - redo + 1]
           ids == Asked(handle_record(Now, record, NoResponse))
       IN  \E resp \in Responses(map, ids, Keys) :
             LET S == handle_record(Now, record, resp)
             IN  /\ Becomes(S)
                 /\ last' = [op |-> "handle", len |-> Len(S.buffered), flush |-> S.flush]
    /\ redo' = redo - 1
    /\ UNCHANGED <<mode, pc, stream, attempt, failure, liveVars, tsVars>>

\* handle_record(record), and a lookup call of its flush raises.
HandleRecordRaises ==
    /\ pc = "stream"
    /\ \E record \in Upcoming : \E kind \in FailureKinds :
         LET T == handle_record(Now, record, NoResponse)
             caught == mode = "replay" /\ attempt = 1 /\ kind = "TypeError"
         IN  /\ Calls(T) > 0
             /\ \E n \in 0 .. Calls(T) - 1 :
                  \E resp \in Responses(map, AskedFirst(T, n), Keys) :
                     Raise(handle_record_raises(Now, record, resp, n), kind)
             /\ stream' = IF redo > 0 THEN stream ELSE Append(stream, record)
             /\ pc' = IF caught THEN "stream" ELSE "aborted"
             /\ attempt' = IF caught THEN 2 ELSE attempt
             /\ redo' = IF caught THEN Len(stream') ELSE 0
    /\ UNCHANGED <<mode, liveVars, tsVars>>

\* Iteration path: the capacity flush, and a lookup call of it raises.
CapacityCheckRaises ==
    /\ pc = "check"
    /\ Len(buffered) >= BufferFlushAt
    /\ \E kind \in FailureKinds :
         LET T == flush_buffer(Now, FALSE, NoResponse)
         IN  /\ Calls(T) > 0
             /\ \E n \in 0 .. Calls(T) - 1 :
                  \E resp \in Responses(map, AskedFirst(T, n), Keys) :
                     Raise(flush_buffer_raises(Now, resp, n), kind)
    /\ pc' = "aborted"
    /\ UNCHANGED <<mode, stream, attempt, redo, liveVars, tsVars>>

\* flush_buffer(force=True) after the stream, and a lookup call of it raises.
EndOfStreamRaises ==
    /\ pc = "stream"
    /\ redo = 0
    /\ \E kind \in FailureKinds :
         LET T == flush_buffer(Now, TRUE, NoResponse)
         IN  /\ Calls(T) > 0
             /\ \E n \in 0 .. Calls(T) - 1 :
                  \E resp \in Responses(map, AskedFirst(T, n), Keys) :
                     Raise(flush_buffer_raises(Now, resp, n), kind)
    /\ pc' = "aborted"
    /\ UNCHANGED <<mode, stream, attempt, redo, liveVars, tsVars>>

NextFaulty ==
    \/ redo = 0 /\ Len(stream) < MaxFaultyRecords /\ HandleRecord
    \/ ReplayAgain
    \/ HandleRecordRaises
    \/ CapacityCheck
    \/ CapacityCheckRaises
    \/ redo = 0 /\ EndOfStream
    \/ EndOfStreamRaises

SpecFaulty == Init /\ [][NextFaulty]_vars

-----------------------------------------------------------------------------
(* The SymbolResolver on its own, under any caller: any sequence of        *)
(* queue() and resolve_pending() calls.                                    *)

ResolverIds == 1 .. MaxIds

\* last.len counts the calls made so far.
CallQueue ==
    /\ last.len < MaxCalls
    /\ \E instrument_id \in ResolverIds : Becomes(queue(Now, instrument_id))
    /\ last' = [op |-> "queue", len |-> last.len + 1, flush |-> None]
    /\ UNCHANGED <<mode, pc, stream, liveVars, tsVars, faultVars>>

CallResolvePending ==
    /\ last.len < MaxCalls
    /\ \E resp \in Responses(map, Range(pending), Keys) : Becomes(resolve_pending(Now, resp))
    /\ last' = [op |-> "resolve", len |-> last.len + 1, flush |-> None]
    /\ UNCHANGED <<mode, pc, stream, liveVars, tsVars, faultVars>>

NextResolver == CallQueue \/ CallResolvePending

\* The resolver right after SymbolResolver.__init__.
InitResolver == Init /\ mode = "iter"

SpecResolver == InitResolver /\ [][NextResolver]_vars

-----------------------------------------------------------------------------
(* ibkr_stream.py: the tick handler on_update.                             *)

\* A tick as on_update reads it; time is the epoch millisecond of ticker.time.
Tick(time, price, size) ==
    [time |-> time, last |-> price, lastSize |-> size,
     lastExchange |-> None, exchange |-> None]

Ticks ==
    { Tick(Some(1000), Some(105), Some(5)),
      Tick(Some(1001), Some(105), Some(5)),
      [Tick(Some(1000), Some(106), Some(5)) EXCEPT !.lastExchange = Some("CBOE")],
      [Tick(Some(1000), Some(105), Some(6)) EXCEPT !.exchange = Some("SMART")],
      Tick(Some(1000), None, Some(5)),
      Tick(Some(1001), Some(105), None),
      Tick(None, Some(105), Some(5)) }

\* int(time.time() * 1000) when the tick carries no time.
Clock == {1000, 2000}

\* on_update comparing price and size only, not the timestamp.
on_update_price_size_key(key0, updated_ticker, now) ==
    IF IsNone(updated_ticker.last) \/ IsNone(updated_ticker.lastSize)
    THEN [last_key |-> key0, payload |-> None]
    ELSE LET ts_ms == IF IsNone(updated_ticker.time) THEN now ELSE Get(updated_ticker.time)
             key == Some(<<ts_ms, Get(updated_ticker.last), Get(updated_ticker.lastSize)>>)
         IN  IF ~IsNone(key0) /\ Get(key)[2] = Get(key0)[2] /\ Get(key)[3] = Get(key0)[3]
             THEN [last_key |-> key0, payload |-> None]
             ELSE [last_key |-> key,
                   payload |-> Some([ts |-> ts_ms,
                                     price |-> Get(updated_ticker.last),
                                     size |-> Get(updated_ticker.lastSize),
                                     exchange |-> "IBKR"])]

\* on_update with the wall clock reading `now`: the new last_key and the
\* payload printed (or None).
on_update(key0, updated_ticker, now) ==
    IF IsNone(updated_ticker.last) \/ IsNone(updated_ticker.lastSize)
    THEN [last_key |-> key0, payload |-> None]
    ELSE LET ts_ms == IF IsNone(updated_ticker.time) THEN now ELSE Get(updated_ticker.time)
             key == Some(<<ts_ms, Get(updated_ticker.last), Get(updated_ticker.lastSize)>>)
             exchange == IF ~IsNone(updated_ticker.lastExchange)
                            /\ Get(updated_ticker.lastExchange) # ""
                         THEN Get(updated_ticker.lastExchange)
                         ELSE IF ~IsNone(updated_ticker.exchange)
                                 /\ Get(updated_ticker.exchange) # ""
                         THEN Get(updated_ticker.exchange)
                         ELSE "IBKR"
         IN  IF key = key0
             THEN [last_key |-> key0, payload |-> None]
             ELSE [last_key |-> key,
                   payload |-> Some([ts |-> ts_ms,
                                     price |-> Get(updated_ticker.last),
                                     size |-> Get(updated_ticker.lastSize),
                                     exchange |-> exchange])]

\* ticker.updateEvent fires.
OnUpdate ==
    /\ Len(ticks) < MaxTicks
    /\ \E t \in Ticks : \E now \in Clock :
         LET r == on_update(last_key, t, now)
         IN  /\ last_key' = r.last_key
             /\ live_out' = IF IsNone(r.payload) THEN live_out
                             ELSE Append(live_out, Get(r.payload))
             /\ ticks' = Append(ticks, [tick |-> t, now |-> now,
                                        emitted |-> ~IsNone(r.payload)])
    /\ UNCHANGED <<replayVars, resolverVars, tsVars, faultVars>>

NextLive == OnUpdate

\* main of ibkr_stream.py after reqMktData, before the first update.
InitLiveOnly == Init /\ mode = "iter"

SpecLive == InitLiveOnly /\ [][NextLive]_vars

-----------------------------------------------------------------------------
(* The two pipelines side by side: a replay run and a live session, two    *)
(* processes that share nothing, their steps interleaved.                  *)

\* Records and ticks delivered so far, against MaxEvents.
Quota == Len(stream) + Len(ticks) < MaxEvents

\* The source delivers a record without ts_event: handle_record(record).
HandleUnstamped ==
    /\ pc = "stream"
    /\ Len(stream) < MaxRecords
    /\ LET record == [Unstamped EXCEPT !.seq = Len(stream) + 1]
           S == handle_record(Now, record, NoResponse)
       IN  /\ Becomes(S)
           /\ stream' = Append(stream, record)
           /\ last' = [op |-> "handle", len |-> Len(S.buffered), flush |-> S.flush]
    /\ pc' = IF mode = "iter" THEN "check" ELSE "stream"
    /\ UNCHANGED <<mode, liveVars, tsVars, faultVars>>

NextBoth ==
    \/ Quota /\ HandleRecord
    \/ Quota /\ HandleUnstamped
    \/ CapacityCheck
    \/ EndOfStream
    \/ Quota /\ OnUpdate

SpecBoth == Init /\ [][NextBoth]_vars

-----------------------------------------------------------------------------
(* normalize_ts on its own: one call on any value, in any local time zone. *)

\* Local time zones: UTC-5, UTC, UTC+9.
Offsets == {-18000, 0, 32400}
\* Sub-millisecond parts of an epoch integer, in nanoseconds.
Nanos == {0, 1, 500000, 999877, 999878, 999999}
\* The values a call may be given: nothing, a str, calendar dates, naive and
\* aware date-times, and integers from 0 to 1.7 * 10^18 on both sides of 10^15.
TsValues ==
    {None, OtherTs, Some([date |-> 11]), Some([date |-> 12])}
    \cup { Some([datetime |-> [wall |-> w, tzinfo |-> o]]) :
             w \in {954000, 1040400}, o \in {None, Some(0), Some(-18000)} }
    \cup { Some([num |-> Wide(t, h, l)]) :
             t \in {0, 1, 17, 18, 1700}, h \in {0, 950, 999999999}, l \in Nanos }

InitNormalize ==
    /\ InitReplay /\ mode = "iter"
    /\ InitLive
    /\ utcoffset \in Offsets
    /\ ts_arg \in TsValues
    /\ ts_result = None

CallNormalize ==
    /\ ts_result = None
    /\ ts_result' = Some(normalize_ts(ts_arg))
    /\ UNCHANGED <<replayVars, resolverVars, liveVars, faultVars, utcoffset, ts_arg>>

NextNormalize == CallNormalize

SpecNormalize == InitNormalize /\ [][NextNormalize]_vars

-----------------------------------------------------------------------------
(* Properties of the replay pipeline (Spec).                               *)

\* The record delivered as number k, its identifier, and whether it carries
\* the price and the size build_payload requires.
Delivered(k) == stream[k]
IdOf(record) == int_of_symbol(SymbolOf(record))
Complete(record) == ~IsNone(record.price) /\ ~IsNone(record.size)
LinesOf(k) == { j \in 1 .. Len(out) : out[j].rec = k }
\* A buffered record's line carries a symbol of the lookup service or str(instrument_id).
ResolvedOrFallback(j) ==
    LET id == IdOf(Delivered(out[j].rec))
    IN  out[j].line.symbol \in SymbolsFor(id) \cup {ToString(id)}

\* C1 as stated: once the stream has ended and the forced flush has run, the
\* pending buffer is empty and every record ever placed in it has been
\* emitted, with its resolved symbol or with the raw-identifier fallback.
C1_AllBufferedEmitted ==
    pc = "done" =>
        /\ buffered = <<>>
        /\ \A k \in placed : \E j \in LinesOf(k) : ResolvedOrFallback(j)

\* C1 as amended: once the stream has ended and the forced flush has run, the
\* pending buffer is empty and every record ever placed in it that carries
\* both price and size has been emitted, with its resolved symbol or with the
\* raw-identifier fallback.
C1_CompleteBufferedEmitted ==
    pc = "done" =>
        /\ buffered = <<>>
        /\ \A k \in placed :
              Complete(Delivered(k)) => \E j \in LinesOf(k) : ResolvedOrFallback(j)

\* A callback replay has ended after buffering a record that was emitted
\* resolved, one emitted with the fallback, and one without a price.
C1_Witness ==
    /\ pc = "done"
    /\ mode = "replay"
    /\ \E k \in placed : \E j \in LinesOf(k) :
          out[j].line.symbol \in SymbolsFor(IdOf(Delivered(k)))
    /\ \E k \in placed : \E j \in LinesOf(k) :
          out[j].line.symbol = ToString(IdOf(Delivered(k)))
    /\ \E k \in placed : ~Complete(Delivered(k))

\* The flush_buffer call of the latest step, and its rule entry by entry.
Flushed == Get(last.flush)
Resolvable(e) == Truthy(lookup(map, e.instrument_id, e.date))
Stays(e) == ~Resolvable(e) /\ ~Flushed.force
Leaves(e) == ~Stays(e)
LeavesComplete(e) == ~Stays(e) /\ Complete(e.record)
SymbolDue(e) ==
    IF Resolvable(e) THEN Get(lookup(map, e.instrument_id, e.date)).s
    ELSE ToString(e.instrument_id)
NewLines == SubSeq(out, Flushed.nout + 1, Len(out))
LinesMatch(entries) ==
    /\ Len(NewLines) = Len(entries)
    /\ \A j \in 1 .. Len(entries) :
          /\ NewLines[j].rec = entries[j].record.seq
          /\ NewLines[j].line.symbol = SymbolDue(entries[j])

\* C2 as stated: a flush emits every entry that is now resolvable with the
\* looked-up symbol and removes it; a forced flush emits every other entry
\* with str(instrument_id) and removes it; otherwise the entry stays, and the
\* entries that stay keep their arrival order.
C2_FlushRule ==
    ~IsNone(last.flush) =>
        /\ buffered = SelectSeq(Flushed.before, Stays)
        /\ LinesMatch(SelectSeq(Flushed.before, Leaves))

\* C2 as amended: as C2, but an entry that leaves the buffer is emitted only
\* if its record carries both price and size; otherwise it is removed
\* without a line.
C2_FlushRuleComplete ==
    ~IsNone(last.flush) =>
        /\ buffered = SelectSeq(Flushed.before, Stays)
        /\ LinesMatch(SelectSeq(Flushed.before, LeavesComplete))

\* A flush that was not forced emitted an entry and kept two others.
C2_Witness ==
    /\ ~IsNone(last.flush)
    /\ ~Flushed.force
    /\ Len(buffered) >= 2
    /\ Len(NewLines) >= 1

\* The first k records carry pairwise distinct numeric identifiers and usable timestamps.
Burst(k) ==
    /\ k <= Len(stream)
    /\ \A j \in 1 .. k :
          /\ TsOk(stream[j])
          /\ is_numeric_symbol(SymbolOf(stream[j]))
          /\ \A i \in 1 .. j - 1 : IdOf(stream[i]) # IdOf(stream[j])

\* C5: while records with distinct unresolved numeric identifiers arrive, no
\* request is made before the PendingFlushAt-th, that one triggers exactly one
\* request holding exactly the identifiers so far, and the next one triggers
\* none and leaves pending_count() at 1.
C5_BatchAtThreshold ==
    (last.op = "handle" /\ Burst(Len(stream))) =>
        /\ Len(stream) < PendingFlushAt => requests = <<>>
        /\ Len(stream) = PendingFlushAt =>
              requests = << [j \in 1 .. PendingFlushAt |-> IdOf(stream[j])] >>
        /\ Len(stream) = PendingFlushAt + 1 =>
              /\ Len(requests) = 1
              /\ pending = << IdOf(stream[Len(stream)]) >>

\* One record past the threshold has just been handled.
C5_Witness ==
    /\ last.op = "handle"
    /\ Len(stream) = PendingFlushAt + 1
    /\ Burst(Len(stream))
    /\ Len(pending) = 1

\* C6 as stated: in both delivery modes, when a record has been handled and
\* the buffer holds BufferFlushAt records or more, flush_buffer has been
\* invoked before the next record (or the end of the stream) is taken.
C6_FlushAtCapacity ==
    (pc = "stream" /\ last.op # "init" /\ last.len >= BufferFlushAt) => ~IsNone(last.flush)

\* C7 as stated: after the handling of any record the pending buffer holds
\* at most BufferFlushAt records.
C7_BufferBounded ==
    pc = "stream" => Len(buffered) <= BufferFlushAt

\* The step hands one more record to handle_record, and the map resolves it already.
HandlesNow == Len(stream') = Len(stream) + 1
Arriving == stream'[Len(stream')]
Hit(record) ==
    /\ TsOk(record)
    /\ is_numeric_symbol(SymbolOf(record))
    /\ Truthy(lookup(map, IdOf(record), DateOfRecord(record)))
ResolverUntouched ==
    /\ buffered' = buffered
    /\ placed' = placed
    /\ pending' = pending
    /\ pending_set' = pending_set
    /\ map' = map
    /\ requests' = requests
EmitsCached(record) ==
    /\ Len(out') = Len(out) + 1
    /\ SubSeq(out', 1, Len(out)) = out
    /\ out'[Len(out')].rec = record.seq
    /\ out'[Len(out')].line.symbol = Get(lookup(map, IdOf(record), DateOfRecord(record))).s

\* C8 as stated: a record with a numeric symbol whose (instrument_id, date)
\* the cache holds is emitted at once with the cached symbol, and the buffer,
\* the pending queue and the cache are unchanged and no request is made.
C8_CachedEmitted ==
    [][(HandlesNow /\ Hit(Arriving)) => (ResolverUntouched /\ EmitsCached(Arriving))]_vars

\* C8 as amended: as C8, but the record is emitted only if it carries both
\* price and size; otherwise nothing is written.
C8_CachedFrame ==
    [][(HandlesNow /\ Hit(Arriving)) =>
          /\ ResolverUntouched
          /\ IF Complete(Arriving) THEN EmitsCached(Arriving) ELSE out' = out]_vars

\* The record handled last was resolved by the cache and written at once.
C8_Witness ==
    /\ last.op = "handle"
    /\ Hit(stream[Len(stream)])
    /\ Len(stream) \notin placed
    /\ out # <<>>
    /\ out[Len(out)].rec = Len(stream)
    /\ buffered # <<>>

\* C10: every line written comes from a record with ts_event, price and size
\* present, a representable timestamp and a symbol source, and carries their
\* values; a record without price never produces a line.
C10_PayloadComplete ==
    /\ \A j \in 1 .. Len(out) :
          LET record == Delivered(out[j].rec)
          IN  /\ ~IsNone(record.ts_event)
              /\ TsOk(record)
              /\ ~IsNone(record.price)
              /\ ~IsNone(record.size)
              /\ ~IsNone(SymbolOf(record))
              /\ out[j].line.ts = Get(normalize_ts(record.ts_event))
              /\ out[j].line.price = Get(record.price)
              /\ out[j].line.size = Get(record.size)
              /\ out[j].line.symbol # ""
    /\ \A k \in 1 .. Len(stream) : IsNone(stream[k].price) => LinesOf(k) = {}

\* A run has ended that buffered a record without price and wrote other lines.
C10_Witness ==
    /\ pc = "done"
    /\ out # <<>>
    /\ \E k \in placed : IsNone(Delivered(k).price)
    /\ \E k \in 1 .. Len(stream) : ~TsOk(stream[k])

-----------------------------------------------------------------------------
(* Properties of the SymbolResolver under any caller (SpecResolver).       *)

NoDuplicates(seq) == \A i, j \in 1 .. Len(seq) : seq[i] = seq[j] => i = j

\* C3: each identifier is at most once in the pending list, the list and the
\* membership set hold the same identifiers, and pending_count() is the
\* number of distinct identifiers queued since the latest resolve_pending():
\* 1 after the same identifier was queued twice.
C3_PendingDistinct ==
    /\ NoDuplicates(pending)
    /\ Range(pending) = pending_set
    /\ Len(pending) = Cardinality(Range(queued))

\* The same identifier was queued twice in a row, after an earlier resolve.
C3_Witness ==
    /\ Len(queued) = 2
    /\ queued[1] = queued[2]
    /\ Len(pending) = 1
    /\ requests # <<>>

RECURSIVE Flatten(_)
Flatten(seqs) == IF seqs = <<>> THEN <<>> ELSE Head(seqs) \o Flatten(Tail(seqs))

\* The step is a resolve_pending() call; Sent are the requests it makes.
ResolvesNow == last'.op = "resolve" /\ last'.len = last.len + 1
Sent == SubSeq(requests', Len(requests) + 1, Len(requests'))

\* C4: one resolve_pending() call submits the queued identifiers in insertion
\* order, in consecutive requests of 1 to ChunkSize identifiers, each
\* identifier in exactly one request, no request for an empty queue, and
\* leaves the queue empty.
C4_ChunkedInOrder ==
    [][ResolvesNow =>
          /\ SubSeq(requests', 1, Len(requests)) = requests
          /\ Flatten(Sent) = pending
          /\ \A j \in 1 .. Len(Sent) : Len(Sent[j]) >= 1 /\ Len(Sent[j]) <= ChunkSize
          /\ \A id \in Range(pending) :
                Cardinality({ j \in 1 .. Len(Sent) : id \in Range(Sent[j]) }) = 1
          /\ pending = <<>> => Sent = <<>>
          /\ pending' = <<>>
          /\ pending_set' = {}]_vars

\* A single call has just split a queue longer than two chunks.
C4_Witness ==
    /\ last.op = "resolve"
    /\ last.len = 2 * ChunkSize + 2
    /\ Len(requests) = 3
    /\ Len(requests[3]) = 1
    /\ pending = <<>>

-----------------------------------------------------------------------------
(* Properties of the live tick handler (SpecLive).                         *)

HasPriceAndSize(t) == ~IsNone(t.last) /\ ~IsNone(t.lastSize)
\* The key (ts, price, size) of delivered tick i, for a tick that has price and size.
KeyOf(i) ==
    Some(<< IF IsNone(ticks[i].tick.time) THEN ticks[i].now ELSE Get(ticks[i].tick.time),
            Get(ticks[i].tick.last), Get(ticks[i].tick.lastSize) >>)
Accepted(n) == { i \in 1 .. n : ticks[i].emitted }
Latest(S) == CHOOSE i \in S : \A j \in S : j <= i
\* The key of the tick accepted most recently among the first n ticks.
KeyAfter(n) == IF Accepted(n) = {} THEN None ELSE KeyOf(Latest(Accepted(n)))

\* C9: a tick is written exactly when it has price and size and its key
\* differs from the key of the tick accepted most recently; the retained key
\* is that key, so dropped ticks leave it unchanged; the lines are the
\* accepted ticks in order.
C9_ConsecutiveDedup ==
    /\ \A i \in 1 .. Len(ticks) :
          ticks[i].emitted <=>
              (HasPriceAndSize(ticks[i].tick) /\ KeyOf(i) # KeyAfter(i - 1))
    /\ last_key = KeyAfter(Len(ticks))
    /\ Len(live_out) = Cardinality(Accepted(Len(ticks)))
    /\ live_out # <<>> =>
          LET line == live_out[Len(live_out)]
          IN  Some(<<line.ts, line.price, line.size>>) = last_key

\* A, A, B, A: the second tick is dropped and the fourth is written again.
C9_Witness ==
    /\ Len(ticks) = 4
    /\ ticks[1].emitted /\ ~ticks[2].emitted /\ ticks[3].emitted
    /\ HasPriceAndSize(ticks[2].tick)
    /\ HasPriceAndSize(ticks[4].tick) /\ KeyOf(4) = KeyOf(1)
    /\ ticks[4].emitted

\* C11 as stated: every line the live pipeline writes carries the fields of
\* the canonical payload: ts, price, size and symbol, none of them null.
C11_LivePayloadHasSymbol ==
    \A j \in 1 .. Len(live_out) :
        /\ {"ts", "price", "size", "symbol"} \subseteq DOMAIN live_out[j]
        /\ live_out[j].symbol # ""

-----------------------------------------------------------------------------
(* Properties of normalize_ts (SpecNormalize).                             *)

Called == ~IsNone(ts_result)
Returned == Get(ts_result)
IsEpochInt(a) == ~IsNone(a) /\ DOMAIN Get(a) = {"num"}
IsDate(a) == ~IsNone(a) /\ DOMAIN Get(a) = {"date"}
IsNaive(a) == ~IsNone(a) /\ DOMAIN Get(a) = {"datetime"} /\ IsNone(Get(a).datetime.tzinfo)
\* V > 10^15 and the integer quotient V div 10^6.
Exceeds(v) == v.top > 1 \/ (v.top = 1 /\ v.hi + v.lo > 0)
Quotient(v) == Big((v.top * 1000) + (v.hi \div MILLION), v.hi % MILLION)

\* C12 as stated: for an integer V, normalize_ts returns the integer quotient
\* V div 1,000,000 when V > 10^15 and V itself when V <= 10^15, 10^15 included.
C12_IntegerQuotient ==
    (Called /\ IsEpochInt(ts_arg)) =>
        LET V == Get(ts_arg).num
        IN  Returned = Some(IF Exceeds(V) THEN Quotient(V) ELSE V)

\* C13 as stated: whatever the local time zone, a calendar date becomes its
\* midnight UTC and a naive date-time the instant it denotes read as UTC.
C13_ZoneIndependent ==
    Called =>
        /\ IsDate(ts_arg) =>
              Returned = Some(IntToBig(Get(ts_arg).date * 86400000))
        /\ IsNaive(ts_arg) =>
              Returned = Some(IntToBig(Get(ts_arg).datetime.wall * 1000))

-----------------------------------------------------------------------------
(* Properties of the two pipelines side by side (SpecBoth).                *)

\* The step delivers one more tick to on_update.
TicksNow == Len(ticks') = Len(ticks) + 1
Ticking == ticks'[Len(ticks')]
ReplayDrops == out' = out /\ ResolverUntouched
StampedKey(t) == Some(<<t.now, Get(t.tick.last), Get(t.tick.lastSize)>>)

-----------------------------------------------------------------------------
(* Properties of the replay pipeline when lookup calls may fail            *)
(* (SpecFaulty).                                                           *)

\* C16 as stated: once a lookup call has failed, in either delivery mode, the
\* pipeline has stopped: no record is handled and no payload is written
\* after the failure.
C16_FailureIsFatal ==
    ~IsNone(failure) =>
        /\ last.op = "raise"
        /\ Len(out) = Get(failure).nout

\* C17 as stated: no input record has two lines in the output, on any path,
\* the call-signature fallback after an exception in the callback included.
C17_AtMostOnce ==
    \A k \in 1 .. Len(stream) : Cardinality(LinesOf(k)) <= 1

\* C18: pending_count() is below PendingFlushAt whenever handle_record has
\* returned (and between any two steps of main), every lookup request holds
\* at most PendingFlushAt identifiers, and no step makes more than one
\* request: the chunking never splits a batch.
C18_PendingBelowThreshold ==
    /\ [](/\ Len(pending) <= PendingFlushAt - 1
          /\ \A k \in 1 .. Len(requests) : Len(requests[k]) <= PendingFlushAt)
    /\ [][Len(requests') <= Len(requests) + 1]_vars

\* A batch of PendingFlushAt identifiers was submitted in one request, and
\* the queue has filled again to one below the threshold.
C18_Witness ==
    /\ last.op = "handle"
    /\ requests # <<>>
    /\ Len(requests[1]) = PendingFlushAt
    /\ Len(pending) = PendingFlushAt - 1

BufferedIds == { buffered[k].instrument_id : k \in 1 .. Len(buffered) }

\* C19: every identifier of the pending queue belongs to an entry of the
\* pending buffer, so the queue is empty whenever the buffer is, and nothing
\* is left queued when main has ended.
C19_PendingWithinBuffer ==
    /\ Range(pending) \subseteq BufferedIds
    /\ buffered = <<>> => pending = <<>>
    /\ pc = "done" => pending = <<>>

\* After a flush kept an unresolved entry, another identifier is queued: the
\* buffer holds an identifier that is not pending and one that is.
C19_Witness ==
    /\ pending # <<>>
    /\ requests # <<>>
    /\ \E id \in BufferedIds : id \notin Range(pending)

\* The entries of a buffer with key K, as the numbers of their records.
EntriesOf(entries, K) ==
    LET Has(e) == <<e.instrument_id, e.date>> = K
        sel == SelectSeq(entries, Has)
    IN  [j \in 1 .. Len(sel) |-> sel[j].record.seq]
\* The lines the step writes for records with key K, as record numbers.
WrittenFor(K) ==
    LET For(l) == /\ TsOk(stream'[l.rec])
                  /\ is_numeric_symbol(SymbolOf(stream'[l.rec]))
                  /\ <<IdOf(stream'[l.rec]), DateOfRecord(stream'[l.rec])>> = K
        sel == SelectSeq(SubSeq(out', Len(out) + 1, Len(out')), For)
    IN  [j \in 1 .. Len(sel) |-> sel[j].rec]
CompleteOnly(recs) ==
    LET Ok(k) == Complete(stream'[k])
    IN  SelectSeq(recs, Ok)
NoBufferedHit ==
    \A k \in 1 .. Len(buffered) :
        ~Truthy(lookup(map, buffered[k].instrument_id, buffered[k].date))

\* C20: between steps no buffered entry has a cache hit for its
\* (instrument_id, date); and in every step, for each (instrument_id, date),
\* either the buffered records of that key stay, in order, a record that
\* arrives joining them at the end, or all of them leave and are written in
\* their arrival order, an arriving record of that key after them: no record
\* is written while an earlier one of its key is left in the buffer.
C20_NoOvertaking ==
    /\ []NoBufferedHit
    /\ [][\A K \in Keys :
            \E arriving \in {<<>>} \cup { <<k>> : k \in 1 .. Len(stream') } :
               LET all == EntriesOf(buffered, K) \o arriving
               IN  \/ EntriesOf(buffered', K) = all /\ WrittenFor(K) = <<>>
                   \/ EntriesOf(buffered', K) = <<>> /\ WrittenFor(K) = CompleteOnly(all)]_vars

\* A flush that was not forced wrote two buffered records of one key in their
\* arrival order and kept the record of another key.
C20_Witness ==
    /\ last.op = "handle"
    /\ ~IsNone(last.flush)
    /\ Len(out) = 2 /\ out[1].rec = 1 /\ out[2].rec = 2
    /\ {1, 2} \subseteq placed
    /\ IdOf(stream[1]) = IdOf(stream[2])
    /\ Len(buffered) = 1

-----------------------------------------------------------------------------
(* Properties of the replay pipeline against a service whose answers do    *)
(* not change (SpecStable).                                                *)

====
